---- MODULE Spec2Model ----
(***************************************************************************)
(* scripts/python/visualize_traj.py : vis_traj(gps_txt_file).              *)
(*                                                                         *)
(* The script opens a text file of GPS fixes, reads it line by line,       *)
(* splits every line into a file name and three numbers, projects          *)
(* (latitude, longitude) with a pyproj Transformer (EPSG:4326 ->           *)
(* EPSG:32649), appends the projected x and y to two lists and finally     *)
(* hands both lists to plt.scatter / plt.show.                             *)
(*                                                                         *)
(* The model follows the function statement by statement: pc is the line   *)
(* of vis_traj about to execute.  Text is modelled as sequences of         *)
(* one-character strings, so that str.strip, str.split and float are       *)
(* computed, not assumed.                                                  *)
(***************************************************************************)
EXTENDS Integers, Sequences, FiniteSets, TLC

\* ------------------------------------------------------------------ bounds
\* Largest number of lines of an input file.
MaxLines == 2

\* ------------------------------------------------------- text of the input
\* The characters of the model that str.strip() / str.split() treat as
\* whitespace.
Whitespace == {" ", "\t", "\n", "\r"}

\* Characters float() reads as decimal digits.
Digits == {"0", "1", "2", "3", "4", "5", "6", "7", "8", "9"}

DigitVal(c) ==
    CASE c = "0" -> 0 [] c = "1" -> 1 [] c = "2" -> 2 [] c = "3" -> 3
      [] c = "4" -> 4 [] c = "5" -> 5 [] c = "6" -> 6 [] c = "7" -> 7
      [] c = "8" -> 8 [] c = "9" -> 9

\* Tokens the input files are written with: "a1", "1" and "12".
TokA  == <<"a", "1">>
Tok1  == <<"1">>
Tok12 == <<"1", "2">>

Idents   == {TokA, Tok1}
LatToks  == {Tok1, Tok12}
LonToks  == {Tok1, Tok12}
AltToks  == {Tok1, Tok12}

\* Token sequences of the lines "<identifier> <latitude> <longitude> <altitude>".
RecordToks == {<<TokA, lat, lon, Tok1>> : lat \in LatToks, lon \in LonToks}

\* Token sequences of lines that are not such a record: 0..3 tokens, a fifth
\* token, or a letter where a number is expected.
OddToks ==
    { <<>>, <<TokA>>, <<TokA, Tok1>>, <<TokA, Tok1, Tok12>>,
      <<TokA, Tok1, Tok12, Tok1, Tok12>>, <<TokA, Tok1, Tok12, Tok1, TokA>>,
      <<TokA, TokA, Tok12, Tok1>>, <<TokA, Tok1, TokA, Tok1>>,
      <<TokA, Tok1, Tok12, TokA>> }

LineToks == RecordToks \cup OddToks

\* How a line is laid out in the file: text before the first token, between
\* tokens and after the last one (the line terminator included; the file is
\* opened with newline='', so "\r\n" stays in the line).
Layouts ==
    { [lead |-> <<>>,    sep |-> <<" ">>,       trail |-> <<"\n">>],
      [lead |-> <<" ">>, sep |-> <<"\t", " ">>, trail |-> <<" ", "\r", "\n">>] }

RECURSIVE Join(_, _)
Join(toks, sep) ==
    IF toks = <<>> THEN <<>>
    ELSE IF Len(toks) = 1 THEN toks[1]
    ELSE toks[1] \o sep \o Join(Tail(toks), sep)

RenderLine(toks, lay) == lay.lead \o Join(toks, lay.sep) \o lay.trail

\* All files of at most MaxLines lines, every line in the same layout.
Files ==
    UNION { { [i \in 1..n |-> RenderLine(ts[i], lay)] : ts \in [1..n -> LineToks] }
            : <<n, lay>> \in (0..MaxLines) \X Layouts }

\* ------------------------------------------------------ str.strip / split
RECURSIVE lstrip(_)
lstrip(s) ==
    IF s = <<>> THEN s
    ELSE IF Head(s) \in Whitespace THEN lstrip(Tail(s)) ELSE s

RECURSIVE rstrip(_)
rstrip(s) ==
    IF s = <<>> THEN s
    ELSE IF s[Len(s)] \in Whitespace THEN rstrip(SubSeq(s, 1, Len(s) - 1)) ELSE s

\* line.strip()
strip(s) == rstrip(lstrip(s))

\* line.split(): the maximal runs of non-whitespace characters, in order.
\* Words scans s from the left; cur is the run being read, acc the runs read.
RECURSIVE Words(_, _, _)
Words(s, cur, acc) ==
    IF s = <<>> THEN (IF cur = <<>> THEN acc ELSE Append(acc, cur))
    ELSE IF Head(s) \in Whitespace
         THEN Words(Tail(s), <<>>, IF cur = <<>> THEN acc ELSE Append(acc, cur))
         ELSE Words(Tail(s), Append(cur, Head(s)), acc)

split(s) == Words(s, <<>>, <<>>)

\* ------------------------------------------------------------------ float
\* Over the characters of the model float(tok) succeeds exactly on the
\* non-empty digit strings.
CanFloat(tok) == tok # <<>> /\ \A i \in 1..Len(tok) : tok[i] \in Digits

RECURSIVE float(_)
float(tok) ==
    IF Len(tok) = 1 THEN DigitVal(tok[1])
    ELSE 10 * float(SubSeq(tok, 1, Len(tok) - 1)) + DigitVal(tok[Len(tok)])

\* --------------------------------------------------- the pyproj Transformer
\* Values float() gives for the latitude and longitude tokens of the model.
Coords == {<<float(la), float(lo)>> : la \in LatToks, lo \in LonToks}

\* The coordinates the Transformer may accept: all of them, or only those up
\* to some latitude (the projected zone's range of validity is not the
\* script's to decide).
TfAreas == { {c \in Coords : c[1] <= float(m)} : m \in LatToks }

\* tf.transform(latitude, longitude): a fixed function of its two arguments,
\* left uninterpreted; the first component is px, the second py.
transform(lat, lon) == << <<"E", lat, lon>>, <<"N", lat, lon>> >>

\* ------------------------------------------------------------------ state
VARIABLES
    file_exists,    \* whether gps_txt_file names a readable file
    infile,         \* the lines of the file, terminators included
    tf_area,        \* the coordinates tf.transform accepts
    pc,             \* the statement of vis_traj about to execute
    handle_open,    \* whether the file object of the with statement is open
    lineno,         \* lines the for loop has taken from infile
    line, filename, coordinates,       \* locals of the loop body
    latitude, longitude, altitude,
    px, py,
    data_x, data_y, \* the two lists
    exc,            \* the exception that left vis_traj, if any
    scatter_calls,  \* arguments of every plt.scatter call
    show_calls,     \* number of plt.show calls that returned
    n_parsed,       \* history: lines whose three numbers line 21 converted
    first_run       \* history: file and plot of an earlier run of the script

vars == << file_exists, infile, tf_area, pc, handle_open, lineno, line,
           filename, coordinates, latitude, longitude, altitude, px, py,
           data_x, data_y, exc, scatter_calls, show_calls, n_parsed,
           first_run >>

locals == << line, filename, coordinates, latitude, longitude, altitude, px, py >>
input  == << file_exists, infile, tf_area >>
plot   == << scatter_calls, show_calls >>

\* Locals no statement has assigned yet (the code reads none before it is
\* assigned): the empty text, and a number float() never returns here.
Unbound == <<>>
NoFloat == -1
NoExc   == "none"

\* vis_traj is entered and lines 11-13 have built tf and the two empty lists.
Enter ==
    /\ pc' = "open"
    /\ handle_open' = FALSE
    /\ lineno' = 0
    /\ line' = Unbound /\ filename' = Unbound /\ coordinates' = Unbound
    /\ latitude' = NoFloat /\ longitude' = NoFloat /\ altitude' = NoFloat
    /\ px' = Unbound /\ py' = Unbound
    /\ data_x' = <<>> /\ data_y' = <<>>
    /\ exc' = NoExc
    /\ scatter_calls' = <<>> /\ show_calls' = 0
    /\ n_parsed' = 0

\* The interpreter has loaded the module; nothing has run and nothing is
\* known yet about proj/gps.txt.
Init ==
    /\ pc = "main"
    /\ file_exists = FALSE /\ infile = <<>> /\ tf_area = {}
    /\ handle_open = FALSE
    /\ lineno = 0
    /\ line = Unbound /\ filename = Unbound /\ coordinates = Unbound
    /\ latitude = NoFloat /\ longitude = NoFloat /\ altitude = NoFloat
    /\ px = Unbound /\ py = Unbound
    /\ data_x = <<>> /\ data_y = <<>>
    /\ exc = NoExc
    /\ scatter_calls = <<>> /\ show_calls = 0
    /\ n_parsed = 0
    /\ first_run = <<>>

\* lines 30-31: vis_traj("proj/gps.txt"), on whatever file is (or is not)
\* there and whatever the Transformer's range of validity is.
Main ==
    /\ pc = "main"
    /\ \/ file_exists' = TRUE  /\ infile' \in Files
       \/ file_exists' = FALSE /\ infile' = <<>>
    /\ tf_area' \in TfAreas
    /\ Enter
    /\ UNCHANGED first_run

\* (variant: the file is opened without `with`; nothing closes it on the way out)
RaiseInWith_noExit(e) ==
    /\ pc' = "raised"
    /\ exc' = e
    /\ handle_open' = handle_open

\* An exception raised inside the with block: __exit__ closes the file, no
\* handler catches it, vis_traj and the script end.
RaiseInWith(e) ==
    /\ pc' = "raised"
    /\ exc' = e
    /\ handle_open' = FALSE

\* line 14: with open(gps_txt_file, mode='r', newline='', encoding='utf-8')
Open ==
    /\ pc = "open"
    /\ IF file_exists
       THEN /\ handle_open' = TRUE
            /\ pc' = "for"
            /\ exc' = exc
       ELSE /\ handle_open' = handle_open
            /\ pc' = "raised"
            /\ exc' = "FileNotFoundError"
    /\ UNCHANGED << input, lineno, locals, data_x, data_y, plot, n_parsed, first_run >>

\* line 15: for line in infile  (a next line exists)
ForNext ==
    /\ pc = "for"
    /\ lineno < Len(infile)
    /\ line' = infile[lineno + 1]
    /\ lineno' = lineno + 1
    /\ pc' = "strip"
    /\ UNCHANGED << input, handle_open, filename, coordinates, latitude, longitude,
                    altitude, px, py, data_x, data_y, exc, plot, n_parsed, first_run >>

\* line 15: the file is exhausted; the with block ends and closes the file.
ForEnd ==
    /\ pc = "for"
    /\ lineno = Len(infile)
    /\ handle_open' = FALSE
    /\ pc' = "scatter"
    /\ UNCHANGED << input, lineno, locals, data_x, data_y, exc, plot, n_parsed, first_run >>

\* line 17: line = line.strip()
Strip ==
    /\ pc = "strip"
    /\ line' = strip(line)
    /\ pc' = "split"
    /\ UNCHANGED << input, handle_open, lineno, filename, coordinates, latitude,
                    longitude, altitude, px, py, data_x, data_y, exc, plot,
                    n_parsed, first_run >>

\* (variant: blank lines are skipped instead of unpacked)
Split_skipBlank ==
    /\ pc = "split"
    /\ IF Len(split(line)) >= 1
       THEN /\ filename' = Head(split(line))
            /\ coordinates' = Tail(split(line))
            /\ pc' = "float"
       ELSE /\ pc' = "for"
            /\ UNCHANGED << filename, coordinates >>
    /\ UNCHANGED << input, handle_open, exc, lineno, line, latitude, longitude,
                    altitude, px, py, data_x, data_y, plot, n_parsed, first_run >>

\* line 19: filename, *coordinates = line.split()
\* The starred target takes what is left; only an empty list cannot be unpacked.
CanUnpackStar(toks) == Len(toks) >= 1

Split ==
    /\ pc = "split"
    /\ LET toks == split(line) IN
       IF CanUnpackStar(toks)
       THEN /\ filename' = Head(toks)
            /\ coordinates' = Tail(toks)
            /\ pc' = "float"
            /\ UNCHANGED << handle_open, exc >>
       ELSE /\ RaiseInWith("ValueError")
            /\ UNCHANGED << filename, coordinates >>
    /\ UNCHANGED << input, lineno, line, latitude, longitude, altitude, px, py,
                    data_x, data_y, plot, n_parsed, first_run >>

\* (variant: only coordinates[:3] are converted, surplus tokens are ignored)
CanFloatAll_ignoreExtra(coords) ==
    /\ Len(coords) >= 3
    /\ \A i \in 1..3 : CanFloat(coords[i])

\* (variant: a line that does not convert is skipped, try/except: continue)
Float_skipBad ==
    /\ pc = "float"
    /\ IF Len(coordinates) = 3 /\ \A i \in 1..3 : CanFloat(coordinates[i])
       THEN /\ latitude'  = float(coordinates[1])
            /\ longitude' = float(coordinates[2])
            /\ altitude'  = float(coordinates[3])
            /\ n_parsed' = n_parsed + 1
            /\ pc' = "transform"
       ELSE /\ pc' = "for"
            /\ UNCHANGED << latitude, longitude, altitude, n_parsed >>
    /\ UNCHANGED << input, handle_open, exc, lineno, line, filename, coordinates,
                    px, py, data_x, data_y, plot, first_run >>

\* line 21: latitude, longitude, altitude = map(float, coordinates)
\* Unpacking into three targets needs exactly three items, and float() is
\* applied to each; a missing item, a surplus item and a string float()
\* rejects all raise ValueError before any of the three names is bound.
CanFloatAll(coords) ==
    /\ Len(coords) = 3
    /\ \A i \in 1..Len(coords) : CanFloat(coords[i])

Float ==
    /\ pc = "float"
    /\ IF CanFloatAll(coordinates)
       THEN /\ latitude'  = float(coordinates[1])
            /\ longitude' = float(coordinates[2])
            /\ altitude'  = float(coordinates[3])
            /\ n_parsed' = n_parsed + 1
            /\ pc' = "transform"
            /\ UNCHANGED << handle_open, exc >>
       ELSE /\ RaiseInWith("ValueError")
            /\ UNCHANGED << latitude, longitude, altitude, n_parsed >>
    /\ UNCHANGED << input, lineno, line, filename, coordinates, px, py,
                    data_x, data_y, plot, first_run >>

\* (variant: the altitude is passed where the longitude belongs)
TransformArgs_altitude == <<latitude, altitude>>

\* (variant: a rejected coordinate is skipped, try/except: continue)
Transform_skipRejected ==
    /\ pc = "transform"
    /\ IF <<latitude, longitude>> \in tf_area
       THEN /\ px' = transform(latitude, longitude)[1]
            /\ py' = transform(latitude, longitude)[2]
            /\ pc' = "append_x"
       ELSE /\ pc' = "for"
            /\ UNCHANGED << px, py >>
    /\ UNCHANGED << input, handle_open, exc, lineno, line, filename, coordinates,
                    latitude, longitude, altitude, data_x, data_y, plot,
                    n_parsed, first_run >>

\* line 22: px, py = tf.transform(latitude, longitude)
TransformArgs == <<latitude, longitude>>

Transform ==
    /\ pc = "transform"
    /\ IF TransformArgs \in tf_area
       THEN /\ px' = transform(TransformArgs[1], TransformArgs[2])[1]
            /\ py' = transform(TransformArgs[1], TransformArgs[2])[2]
            /\ pc' = "append_x"
            /\ UNCHANGED << handle_open, exc >>
       ELSE /\ RaiseInWith("ProjError")
            /\ UNCHANGED << px, py >>
    /\ UNCHANGED << input, lineno, line, filename, coordinates, latitude,
                    longitude, altitude, data_x, data_y, plot, n_parsed, first_run >>

\* (variant: data_x.insert(0, px))
AppendX_front ==
    /\ pc = "append_x"
    /\ data_x' = <<px>> \o data_x
    /\ pc' = "append_y"
    /\ UNCHANGED << input, handle_open, lineno, locals, data_y, exc, plot,
                    n_parsed, first_run >>

\* line 24: data_x.append(px)
AppendX ==
    /\ pc = "append_x"
    /\ data_x' = Append(data_x, px)
    /\ pc' = "append_y"
    /\ UNCHANGED << input, handle_open, lineno, locals, data_y, exc, plot,
                    n_parsed, first_run >>

\* (variant: data_x.append(py), the wrong list)
AppendY_wrongList ==
    /\ pc = "append_y"
    /\ data_x' = Append(data_x, py)
    /\ pc' = "for"
    /\ UNCHANGED << input, handle_open, lineno, locals, data_y, exc, plot,
                    n_parsed, first_run >>

\* (variant: plt.scatter indented into the loop body)
AppendY_thenScatter ==
    /\ pc = "append_y"
    /\ data_y' = Append(data_y, py)
    /\ scatter_calls' = Append(scatter_calls, <<data_x, Append(data_y, py)>>)
    /\ pc' = "for"
    /\ UNCHANGED << input, handle_open, lineno, locals, data_x, exc, show_calls,
                    n_parsed, first_run >>

\* line 25: data_y.append(py); the loop body ends
AppendY ==
    /\ pc = "append_y"
    /\ data_y' = Append(data_y, py)
    /\ pc' = "for"
    /\ UNCHANGED << input, handle_open, lineno, locals, data_x, exc, plot,
                    n_parsed, first_run >>

\* (variant: if data_x: plt.scatter(data_x, data_y))
Scatter_unlessEmpty ==
    /\ pc = "scatter"
    /\ scatter_calls' =
          (IF data_x = <<>> THEN scatter_calls
           ELSE Append(scatter_calls, <<data_x, data_y>>))
    /\ pc' = "show"
    /\ UNCHANGED << input, handle_open, lineno, locals, data_x, data_y, exc,
                    show_calls, n_parsed, first_run >>

\* line 26: plt.scatter(data_x, data_y)
Scatter ==
    /\ pc = "scatter"
    /\ scatter_calls' = Append(scatter_calls, <<data_x, data_y>>)
    /\ pc' = "show"
    /\ UNCHANGED << input, handle_open, lineno, locals, data_x, data_y, exc,
                    show_calls, n_parsed, first_run >>

\* line 27: plt.show() returns when the viewer is closed; vis_traj returns.
Show ==
    /\ pc = "show"
    /\ show_calls' = show_calls + 1
    /\ pc' = "done"
    /\ UNCHANGED << input, handle_open, lineno, locals, data_x, data_y, exc,
                    scatter_calls, n_parsed, first_run >>

\* One statement of vis_traj that needs nobody but the interpreter.
Compute ==
    \/ Open \/ ForNext \/ ForEnd \/ Strip \/ Split \/ Float \/ Transform
    \/ AppendX \/ AppendY \/ Scatter

\* One statement of vis_traj.
Statement == Compute \/ Show

Next == Main \/ Statement

Spec == Init /\ [][Next]_vars

\* The interpreter runs the single thread for as long as it can; whether the
\* viewer plt.show opens is ever closed is up to the user.
FairSpec == Spec /\ WF_vars(Compute)

\* ------------------------------------------------------- a second run
\* The layout a file of the model is written in.
LayoutOf(f) ==
    CHOOSE lay \in Layouts : \A i \in 1..Len(f) : f[i] = RenderLine(split(f[i]), lay)

\* The files that differ from f at most in the identifier and the altitude
\* token of their lines.
Variants(f) ==
    { [i \in 1..Len(f) |->
          RenderLine(<<ia[i][1], split(f[i])[2], split(f[i])[3], ia[i][2]>>, LayoutOf(f))]
      : ia \in [1..Len(f) -> Idents \X AltToks] }

\* The script has run to its end and is started again, with the same
\* Transformer, on a file that differs only in identifiers and altitudes;
\* what the first run read and plotted is kept for comparison.
Rerun ==
    /\ pc = "done"
    /\ first_run = <<>>
    /\ first_run' = << [file |-> infile, plot |-> scatter_calls] >>
    /\ infile' \in Variants(infile)
    /\ UNCHANGED << file_exists, tf_area >>
    /\ Enter

PairNext == Main \/ Statement \/ Rerun

PairSpec == Init /\ [][PairNext]_vars

\* ------------------------------------------------------ reading the input
\* What the claims say about the file, read off the file itself.

\* The whitespace-separated tokens of line i of the input.
TokensOf(i) == split(infile[i])

\* Line i is "<identifier> <latitude> <longitude> <altitude>": four tokens,
\* the last three numeric.
IsRecord(i) ==
    /\ Len(TokensOf(i)) = 4
    /\ \A j \in 2..4 : CanFloat(TokensOf(i)[j])

\* The (latitude, longitude) of a record line.
LatLonOf(i) == << float(TokensOf(i)[2]), float(TokensOf(i)[3]) >>

\* The point the Transformer gives for a record line.
PointOf(i) == transform(LatLonOf(i)[1], LatLonOf(i)[2])

WellFormedFile == \A i \in 1..Len(infile) : IsRecord(i)

\* data_x and data_y hold exactly the points of lines 1..n, in line order.
HoldsPointsOf(n) ==
    /\ Len(data_x) = n
    /\ Len(data_y) = n
    /\ \A i \in 1..n : data_x[i] = PointOf(i)[1] /\ data_y[i] = PointOf(i)[2]

InLoopBody == pc \in {"strip", "split", "float", "transform", "append_x", "append_y"}
LoopLeft   == pc \in {"scatter", "show", "done"}
NotPlotted == scatter_calls = <<>> /\ show_calls = 0

\* ----------------------------------------------------------------- claims

\* C1: for a well-formed file of N lines, when the loop has finished data_x
\* and data_y each hold N entries and entry i is the transform of the
\* (latitude, longitude) of line i.
C1_LoadedInLineOrder ==
    (LoopLeft /\ WellFormedFile) => HoldsPointsOf(Len(infile))

C1_Witness ==
    /\ pc = "scatter"
    /\ Len(infile) = 2
    /\ WellFormedFile
    /\ LatLonOf(1) # LatLonOf(2)
    /\ LatLonOf(1)[1] # LatLonOf(1)[2]
    /\ HoldsPointsOf(2)

\* A line with fewer than four tokens, or with a latitude, longitude or
\* altitude token that is no float.
C2_Malformed(k) ==
    \/ Len(TokensOf(k)) < 4
    \/ \E j \in 2..4 : ~CanFloat(TokensOf(k)[j])

C2_NeverPastMalformed ==
    \A k \in 1..Len(infile) :
        C2_Malformed(k) =>
            /\ lineno <= k
            /\ Len(data_x) < k /\ Len(data_y) < k
            /\ lineno = k => pc \in {"strip", "split", "float", "raised"}
            /\ ~LoopLeft
            /\ NotPlotted
            /\ pc = "raised" => exc \in {"ValueError", "ProjError"}

\* C2: a line with fewer than four tokens, or with a latitude, longitude or
\* altitude token that is no float, is never skipped, nothing after it is
\* read, it adds no entry, plt.scatter / plt.show are never called, and the
\* run ends by raising.
C2_MalformedLineIsFatal ==
    /\ []C2_NeverPastMalformed
    /\ (pc = "open" /\ \E k \in 1..Len(infile) : C2_Malformed(k)) ~> (pc = "raised")

C2_Witness ==
    /\ pc = "raised"
    /\ exc = "ValueError"
    /\ Len(infile) = 2
    /\ lineno = 2
    /\ Len(TokensOf(2)) = 4
    /\ C2_Malformed(2)
    /\ HoldsPointsOf(1)
    /\ NotPlotted

\* C3 as stated: data_x and data_y have the same length in every state, and
\* that length is the number of lines parsed so far.
C3_EqualLengthAlways ==
    /\ Len(data_x) = Len(data_y)
    /\ Len(data_x) = n_parsed

\* C3 amended: the lengths are equal except between the two appends, where
\* data_x is one longer; the length of data_y is the number of lines parsed,
\* less one from the moment line 21 has parsed a line until line 25 has
\* appended its point, and for good when the Transformer rejects the line.
C3_Lengths ==
    /\ Len(data_x) = (IF pc = "append_y" THEN Len(data_y) + 1 ELSE Len(data_y))
    /\ Len(data_y) =
         (IF \/ pc \in {"transform", "append_x", "append_y"}
             \/ (pc = "raised" /\ exc = "ProjError")
          THEN n_parsed - 1 ELSE n_parsed)

C3_Witness ==
    /\ pc = "append_y"
    /\ Len(data_x) = 2
    /\ Len(data_y) = 1
    /\ n_parsed = 2

\* C4: an existing file of zero lines: the loop body never runs, nothing is
\* raised, both lists stay empty and plt.scatter gets two empty lists.
C4_EmptyFile ==
    (file_exists /\ infile = <<>>) =>
        /\ pc \in {"open", "for", "scatter", "show", "done"}
        /\ exc = NoExc
        /\ lineno = 0 /\ n_parsed = 0
        /\ data_x = <<>> /\ data_y = <<>>
        /\ pc \in {"show", "done"} => scatter_calls = << << <<>>, <<>> >> >>
        /\ pc = "done" => show_calls = 1

C4_Witness ==
    /\ file_exists /\ infile = <<>>
    /\ pc = "done"
    /\ scatter_calls = << << <<>>, <<>> >> >>
    /\ show_calls = 1

\* C5: the file object is closed whenever control is past the with block:
\* after the last line, after a parse failure and after a transform failure.
C5_HandleReleased ==
    /\ (LoopLeft \/ pc = "raised") => handle_open = FALSE
    /\ (pc = "for" \/ InLoopBody) => handle_open = TRUE

C5_Witness ==
    /\ pc = "raised"
    /\ exc = "ProjError"
    /\ lineno = 2
    /\ Len(data_x) = 1
    /\ handle_open = FALSE

\* plt.scatter is called at most once, only after every line has been
\* loaded, with the complete lists; a run that returned has plotted exactly
\* once, a run that raised has not plotted.
C6_PlotOnceAtEnd ==
    /\ Len(scatter_calls) <= 1
    /\ show_calls <= Len(scatter_calls)
    /\ scatter_calls # <<>> =>
          /\ pc \in {"show", "done"}
          /\ lineno = Len(infile)
          /\ WellFormedFile
          /\ HoldsPointsOf(Len(infile))
          /\ scatter_calls[1] = <<data_x, data_y>>
    /\ show_calls = 1 => pc = "done"
    /\ pc = "done" => Len(scatter_calls) = 1 /\ show_calls = 1 /\ exc = NoExc
    /\ pc = "raised" => NotPlotted /\ exc # NoExc

\* C6: every run ends in one of two ways: all lines loaded and plt.scatter
\* called exactly once, after the last line, with the complete lists (and
\* plt.show after it); or an exception and no plot at all.
C6_TwoOutcomes ==
    /\ []C6_PlotOnceAtEnd
    /\ (pc = "open") ~> (pc \in {"show", "done", "raised"})

C6_Witness ==
    /\ pc = "done"
    /\ Len(infile) = 2
    /\ LatLonOf(1) # LatLonOf(2)
    /\ scatter_calls = << <<data_x, data_y>> >>
    /\ HoldsPointsOf(2)
    /\ show_calls = 1

\* The first line of the input that is not a record, when there is one.
HasOddLine == \E k \in 1..Len(infile) : ~IsRecord(k)
FirstOddLine ==
    CHOOSE k \in 1..Len(infile) : ~IsRecord(k) /\ \A j \in 1..(k - 1) : IsRecord(j)

\* Whether the Transformer accepts every line before line k, and the first
\* line it rejects otherwise.
AcceptsBefore(k) == \A j \in 1..(k - 1) : LatLonOf(j) \in tf_area
FirstRejectedBefore(k) ==
    CHOOSE j \in 1..(k - 1) :
        LatLonOf(j) \notin tf_area /\ \A i \in 1..(j - 1) : LatLonOf(i) \in tf_area

\* C7 as stated: with a malformed line in the input, the run aborts on the
\* first one, line k, with exactly lines 1..k-1 appended, and reads nothing
\* after k.
C7_AbortsOnFirstMalformed ==
    HasOddLine =>
        /\ lineno <= FirstOddLine
        /\ pc = "raised" =>
              /\ lineno = FirstOddLine
              /\ HoldsPointsOf(FirstOddLine - 1)

\* C7 amended: the run never reads past the first malformed line k and never
\* leaves the loop normally; it aborts on line k with lines 1..k-1 appended
\* when the Transformer accepts all of them, and otherwise on the first line
\* j < k the Transformer rejects, with lines 1..j-1 appended.
C7_AbortsByFirstMalformed ==
    HasOddLine =>
        /\ lineno <= FirstOddLine
        /\ ~LoopLeft
        /\ pc = "raised" =>
              IF AcceptsBefore(FirstOddLine)
              THEN /\ lineno = FirstOddLine
                   /\ exc = "ValueError"
                   /\ HoldsPointsOf(FirstOddLine - 1)
              ELSE /\ lineno = FirstRejectedBefore(FirstOddLine)
                   /\ exc = "ProjError"
                   /\ HoldsPointsOf(lineno - 1)

C7_Witness ==
    /\ pc = "raised"
    /\ exc = "ValueError"
    /\ Len(infile) = 2
    /\ HasOddLine
    /\ FirstOddLine = 1
    /\ lineno = 1
    /\ IsRecord(2)
    /\ data_x = <<>> /\ data_y = <<>>

\* A record line whose coordinates the Transformer rejects.
C8_Rejected(j) == IsRecord(j) /\ LatLonOf(j) \notin tf_area

\* C8: a record line whose coordinates the Transformer rejects ends the run:
\* ProjError leaves vis_traj, the lists hold the points of the lines before
\* it and nothing of this line, no later line is read and nothing is plotted.
C8_TransformFailureIsFatal ==
    /\ \A j \in 1..Len(infile) :
          C8_Rejected(j) =>
              /\ lineno <= j
              /\ Len(data_x) < j /\ Len(data_y) < j
              /\ lineno = j => pc \in {"strip", "split", "float", "transform", "raised"}
              /\ ~LoopLeft
              /\ NotPlotted
    /\ exc = "ProjError" =>
          /\ pc = "raised"
          /\ lineno >= 1
          /\ C8_Rejected(lineno)
          /\ HoldsPointsOf(lineno - 1)

C8_Witness ==
    /\ exc = "ProjError"
    /\ pc = "raised"
    /\ Len(infile) = 2
    /\ WellFormedFile
    /\ lineno = 1
    /\ data_x = <<>> /\ data_y = <<>>
    /\ NotPlotted

\* A line of no tokens, or of five or more.
C10_WrongCount(k) == Len(TokensOf(k)) = 0 \/ Len(TokensOf(k)) >= 5

\* C10: a line of no tokens and a line of five or more tokens (numeric or
\* not) end the run with ValueError like a line of too few tokens: no entry
\* for the line, nothing read after it, nothing plotted.
C10_ExactlyFourTokens ==
    \A k \in 1..Len(infile) :
        C10_WrongCount(k) =>
            /\ lineno <= k
            /\ Len(data_x) < k /\ Len(data_y) < k
            /\ lineno = k => pc \in {"strip", "split", "float", "raised"}
            /\ (lineno = k /\ pc = "raised") => exc = "ValueError"
            /\ ~LoopLeft
            /\ NotPlotted

C10_Witness ==
    /\ pc = "raised"
    /\ exc = "ValueError"
    /\ Len(infile) = 2
    /\ lineno = 2
    /\ Len(TokensOf(2)) = 5
    /\ \A j \in 2..5 : CanFloat(TokensOf(2)[j])
    /\ HoldsPointsOf(1)
    /\ NotPlotted

\* C9: the identifiers and the altitudes do not reach the output: a run on
\* a file that differs from an earlier run's file only in identifier and
\* altitude tokens loads the same lists and passes plt.scatter the same
\* arguments, and ends the same way.
C9_IdentAndAltitudeUnused ==
    first_run # <<>> =>
        /\ pc # "raised"
        /\ LoopLeft => <<data_x, data_y>> = first_run[1].plot[1]
        /\ pc \in {"show", "done"} => scatter_calls = first_run[1].plot

C9_Witness ==
    /\ first_run # <<>>
    /\ pc = "done"
    /\ Len(infile) = 2
    /\ \A i \in 1..2 :
          /\ TokensOf(i)[1] # split(first_run[1].file[i])[1]
          /\ TokensOf(i)[4] # split(first_run[1].file[i])[4]
    /\ scatter_calls = first_run[1].plot

====
